---- MODULE Spec2Model ----
(***************************************************************************)
(* Model of the graph ETL pipeline: the disposal-target text engine of     *)
(* src/etl/waste_items.py (normaliser, validity filter, concatenation      *)
(* splitter, parser, classifier), the facility loader of                   *)
(* src/etl/facilities.py and the Cypher upserts both importers issue       *)
(* against the Neo4j store.                                                *)
(*                                                                         *)
(* Strings are TLA+ strings; a character is a string of length one.        *)
(***************************************************************************)
EXTENDS Integers, Sequences, FiniteSets, TLC

(***************************************************************************)
(* Python string primitives used by the text engine.                       *)
(***************************************************************************)

\* The letters the model's inputs use that str.lower() changes.
UpperChars == "ABCDEFGHIJKLMNOPQRSTUVWXYZÄÖÜ"
LowerChars == "abcdefghijklmnopqrstuvwxyzäöü"

LowerMap ==
    [c \in {SubSeq(UpperChars, i, i) : i \in 1..Len(UpperChars)} |->
        LET i == CHOOSE k \in 1..Len(UpperChars) : SubSeq(UpperChars, k, k) = c
        IN  SubSeq(LowerChars, i, i)]

lower_char(c) == IF c \in DOMAIN LowerMap THEN LowerMap[c] ELSE c

\* str.lower()
RECURSIVE lower(_)
lower(s) ==
    IF Len(s) = 0 THEN ""
    ELSE IF Len(s) = 1 THEN lower_char(s)
    ELSE LET h == Len(s) \div 2
         IN  lower(SubSeq(s, 1, h)) \o lower(SubSeq(s, h + 1, Len(s)))

\* The characters str.strip() removes.
Whitespace == {" ", "\t", "\n", "\r"}

Min(S) == CHOOSE x \in S : \A y \in S : x <= y
Max(S) == CHOOSE x \in S : \A y \in S : x >= y

\* str.strip()
strip(s) ==
    LET keep == {i \in 1..Len(s) : SubSeq(s, i, i) \notin Whitespace}
    IN  IF keep = {} THEN "" ELSE SubSeq(s, Min(keep), Max(keep))

\* sub in s
Contains(s, sub) ==
    \E i \in 1..(Len(s) - Len(sub) + 1) : SubSeq(s, i, i + Len(sub) - 1) = sub

\* s.startswith(p)
StartsWith(s, p) == Len(s) >= Len(p) /\ SubSeq(s, 1, Len(p)) = p

\* The positions at which sub occurs in s.
Occurrences(s, sub) ==
    {i \in 1..(Len(s) - Len(sub) + 1) : SubSeq(s, i, i + Len(sub) - 1) = sub}

\* s.find(sub) + 1, or 0 when sub does not occur
Find(s, sub) ==
    LET occ == Occurrences(s, sub) IN IF occ = {} THEN 0 ELSE Min(occ)

\* s.replace(old, new, 1)
Replace1(s, old, new) ==
    LET i == Find(s, old)
    IN  IF i = 0 THEN s
        ELSE SubSeq(s, 1, i - 1) \o new \o SubSeq(s, i + Len(old), Len(s))

\* s.split('\n')
RECURSIVE split_lines(_)
split_lines(s) ==
    LET i == Find(s, "\n")
    IN  IF i = 0 THEN <<s>>
        ELSE <<SubSeq(s, 1, i - 1)>> \o split_lines(SubSeq(s, i + 1, Len(s)))

\* re.findall(pattern, text, re.IGNORECASE) for a literal pattern: the
\* matched pieces of text, leftmost first, not overlapping.
RECURSIVE findall_from(_, _, _, _)
findall_from(n, text, occ, from) ==
    LET rest == {i \in occ : i >= from}
    IN  IF rest = {} THEN <<>>
        ELSE LET i == Min(rest)
             IN  <<SubSeq(text, i, i + n - 1)>>
                     \o findall_from(n, text, occ, i + n)

findall(pattern, text) ==
    findall_from(Len(pattern), text,
                 Occurrences(lower(text), lower(pattern)), 1)

Range(f) == {f[i] : i \in DOMAIN f}

\* A function as an explicit table: its values are computed once, not at
\* every application.
Table(f) == f @@ <<>>

(***************************************************************************)
(* The text engine of src/etl/waste_items.py.                              *)
(***************************************************************************)

WASTE_STREAMS ==
    { "Restabfalltonne",
      "Biotonne",
      "Altpapiertonne",
      "Verpackungstonne",
      "Verpackungstonne (Gelbe Tonne)" }

FACILITY_NAME_MAP ==
    [k \in { "Fachhandel/Hersteller",
             "Fachhandel / Herstelle",
             "Mobile Elektrokleingerätesam-mlung",
             "Abfallumladeanlage FES",
             "Abfallumladeanlage (FES)",
             "Abfallumladeanlage",
             "Abfallumladeanlage \tFES",
             "Schadstoffsammlung FES",
             "Schadstoffsammlung \tFES",
             "Schadstoffsammlung\t FES",
             "Schadstoffmobil FES",
             "Restmülltonne" } |->
        CASE k \in {"Fachhandel/Hersteller", "Fachhandel / Herstelle"}
                 -> "Fachhandel / Hersteller"
          [] k = "Mobile Elektrokleingerätesam-mlung"
                 -> "Mobile Elektrokleingerätesammlung"
          [] k \in {"Abfallumladeanlage FES", "Abfallumladeanlage (FES)",
                    "Abfallumladeanlage", "Abfallumladeanlage \tFES"}
                 -> "FES-Abfallumladeanlage"
          [] k \in {"Schadstoffsammlung FES", "Schadstoffsammlung \tFES",
                    "Schadstoffsammlung\t FES", "Schadstoffmobil FES"}
                 -> "Schadstoffsammlung"
          [] k = "Restmülltonne"
                 -> "Restabfalltonne"]

\* generate_uid: the first 16 hex digits of SHA-256 of the name.  The digest
\* is modelled as a collision-free tag of the name it was computed from.
generate_uid(name) == <<"sha256", name>>

\* normalize_facility_name that looks the name up as it was given.
normalize_facility_name_unstripped(name) ==
    IF name \in DOMAIN FACILITY_NAME_MAP THEN FACILITY_NAME_MAP[name] ELSE name

normalize_facility_name(name) ==
    LET n == strip(name)
    IN  IF n \in DOMAIN FACILITY_NAME_MAP THEN FACILITY_NAME_MAP[n] ELSE n

MinNameLen == 3

skip_patterns ==
    << "laut ", "hinweis", " = ", "stück", "mengen", "kartons", "polizei",
       "elektrische zahnbürste", "sonst ", "selbstgebaut", "aus dem handel",
       "haushaltsübliche", "saubere ", "größere ", "kleinere " >>

skip_prefixes == << "laut", "ab ", "bis ", "lauut" >>

\* is_valid_facility_name without name.lower(): the tests see the name in
\* the letter case it came in.
is_valid_facility_name_cased(raw) ==
    LET name == strip(raw)
    IN  IF name = "" \/ Len(name) < MinNameLen THEN FALSE
        ELSE IF \E k \in DOMAIN skip_patterns :
                    Contains(name, skip_patterns[k]) THEN FALSE
        ELSE IF \E k \in DOMAIN skip_prefixes :
                    StartsWith(name, skip_prefixes[k]) THEN FALSE
        ELSE IF Contains(name, " oder ") THEN FALSE
        ELSE TRUE

is_valid_facility_name(raw) ==
    LET name == strip(raw)
        name_lower == lower(name)
    IN  IF name = "" \/ Len(name) < MinNameLen THEN FALSE
        ELSE IF \E k \in DOMAIN skip_patterns :
                    Contains(name_lower, skip_patterns[k]) THEN FALSE
        ELSE IF \E k \in DOMAIN skip_prefixes :
                    StartsWith(name_lower, skip_prefixes[k]) THEN FALSE
        ELSE IF Contains(name_lower, " oder ") THEN FALSE
        ELSE TRUE

\* The literal texts the regular expressions of known_patterns denote, in
\* the order of the list.
known_patterns ==
    << "Altkleidercontainer im öffentlichen Straßenraum",
       "Self Service am Wertstoffhof Nord",
       "Mobile Elektrokleingerätesam-mlung",
       "Mobile Elektrokleingerätesammlung",
       "Verpackungstonne (Gelbe Tonne)",
       "Öffentliche Gebäude / Einzelhandel",
       "Öffentliche Gebäude/Einzelhandel",
       "Fachhandel / Hersteller",
       "Fachhandel/Hersteller",
       "Abfallumladeanlage FES",
       "FES-Abfallumladeanlage",
       "Altpapiersortieranlage",
       "FES-Aktenvernichtung",
       "Deponiepark Wicker",
       "Rhein-Main-Deponie",
       "FES-Servicecenter",
       "Containergestellung",
       "Schadstoffsammlung",
       "Wertstoffhof Nord",
       "Wertstoffhof West",
       "Wertstoffhof Süd",
       "Wertstoffhof Ost",
       "Kofferraumservice",
       "Recyclingzentrum",
       "Verpackungstonne",
       "Altglascontainer",
       "Restabfalltonne",
       "Altpapiertonne",
       "Kleiderspende",
       "Möbelspende",
       "Sachspende",
       "Wertstoffinsel",
       "Altölverordnung",
       "Klamoddekurier",
       "Betriebshöfe FES",
       "Auf Anfrage",
       "Sperrmüll",
       "GWR GmbH",
       "RMB GmbH",
       "FFR GmbH",
       "Biotonne",
       "easi" >>

\* take_matches without remaining.replace(match, ' ', 1): the matched text
\* stays in remaining.
RECURSIVE take_matches_keep(_, _)
take_matches_keep(matches, acc) ==
    IF matches = <<>> \/ acc.remaining = "" THEN acc
    ELSE take_matches_keep(Tail(matches),
            [results   |-> Append(acc.results,
                                  normalize_facility_name(Head(matches))),
             remaining |-> acc.remaining])

\* The inner loop of extract_facilities_from_concat: every match of one
\* pattern is normalised into results, and its first occurrence in
\* remaining is replaced by a blank.
RECURSIVE take_matches(_, _)
take_matches(matches, acc) ==
    IF matches = <<>> \/ acc.remaining = "" THEN acc
    ELSE take_matches(Tail(matches),
            [results   |-> Append(acc.results,
                                  normalize_facility_name(Head(matches))),
             remaining |-> Replace1(acc.remaining, Head(matches), " ")])

\* The outer loop of extract_facilities_from_concat over known_patterns[k..]
\* (no pattern matches in an empty remaining text).
RECURSIVE extract_from(_, _)
extract_from(k, acc) ==
    IF k > Len(known_patterns) \/ acc.remaining = "" THEN acc.results
    ELSE extract_from(k + 1,
            take_matches(findall(known_patterns[k], acc.remaining), acc))

extract_facilities_from_concat(text) ==
    extract_from(1, [results |-> <<>>, remaining |-> text])

LongCell == 30

\* The names of a list that pass the validity filter, normalised.
RECURSIVE valid_normalized(_)
valid_normalized(names) ==
    IF names = <<>> THEN <<>>
    ELSE (IF is_valid_facility_name(Head(names))
          THEN <<normalize_facility_name(Head(names))>> ELSE <<>>)
         \o valid_normalized(Tail(names))

\* part_targets that appends a short part without asking the validity
\* filter.
part_targets_unfiltered(disposal_text, raw_part) ==
    LET part == strip(raw_part)
    IN  IF part = "" \/ part = "-" THEN <<>>
        ELSE IF ~Contains(disposal_text, "\n") /\ Len(part) > LongCell
        THEN valid_normalized(extract_facilities_from_concat(part))
        ELSE <<normalize_facility_name(part)>>

\* The body of the loop over parts in parse_disposal_targets: what one
\* part appends to targets.
part_targets(disposal_text, raw_part) ==
    LET part == strip(raw_part)
    IN  IF part = "" \/ part = "-" THEN <<>>
        ELSE IF ~Contains(disposal_text, "\n") /\ Len(part) > LongCell
        THEN valid_normalized(extract_facilities_from_concat(part))
        ELSE IF is_valid_facility_name(part)
        THEN <<normalize_facility_name(part)>>
        ELSE valid_normalized(extract_facilities_from_concat(part))

RECURSIVE parts_targets(_, _)
parts_targets(disposal_text, parts) ==
    IF parts = <<>> THEN <<>>
    ELSE part_targets(disposal_text, Head(parts))
             \o parts_targets(disposal_text, Tail(parts))

\* The list targets of parse_disposal_targets before it is deduplicated.
parse_targets_list(disposal_text) ==
    IF disposal_text = "" \/ strip(disposal_text) = "-" THEN <<>>
    ELSE parts_targets(disposal_text,
            IF Contains(disposal_text, "\n")
            THEN split_lines(disposal_text) ELSE <<disposal_text>>)

\* parse_disposal_targets returns list(set(targets)): the distinct names,
\* in an order the set's iteration picks.  The operator gives the set.
parse_disposal_targets(disposal_text) == Range(parse_targets_list(disposal_text))

\* classify_target with the two membership tests in the other order.
classify_target_facility_first(target_name, existing_facilities) ==
    IF target_name \in existing_facilities THEN <<"facility", target_name>>
    ELSE IF target_name \in WASTE_STREAMS THEN <<"stream", target_name>>
    ELSE <<"facility", target_name>>

classify_target(target_name, existing_facilities) ==
    IF target_name \in WASTE_STREAMS THEN <<"stream", target_name>>
    ELSE IF target_name \in existing_facilities THEN <<"facility", target_name>>
    ELSE <<"facility", target_name>>

(***************************************************************************)
(* The Neo4j store and the Cypher statements the importers run.            *)
(*                                                                         *)
(* A database value db is [nodes, rels]: the nodes in creation order (a    *)
(* node's identity is its position) and the relationships in creation     *)
(* order.  A property that is not set is "" (text) or 0 (a time); the      *)
(* clock of datetime() starts at 1.                                        *)
(***************************************************************************)

EmptyDb == [nodes |-> <<>>, rels |-> <<>>]

\* The nodes a pattern (n:Label {key: value}) matches.
MatchNodes(db, label, key, value) ==
    {i \in DOMAIN db.nodes : db.nodes[i].label = label /\ db.nodes[i][key] = value}

\* A set of integer pairs as a list, in ascending order.
RECURSIVE SortedPairs(_)
SortedPairs(S) ==
    IF S = {} THEN <<>>
    ELSE LET p == CHOOSE x \in S :
                    \A y \in S : x[1] < y[1] \/ (x[1] = y[1] /\ x[2] <= y[2])
         IN  <<p>> \o SortedPairs(S \ {p})

\* MergeRels whose pattern leaves the end node open, MERGE (a)-[r:TYPE]->():
\* a relationship of the type from a to any node counts as found.
RECURSIVE MergeRelsAnyEnd(_, _, _, _)
MergeRelsAnyEnd(rels, type, pairs, now) ==
    IF pairs = <<>> THEN rels
    ELSE LET a == Head(pairs)[1]
             b == Head(pairs)[2]
             found == \E k \in DOMAIN rels :
                         rels[k].type = type /\ rels[k].from = a
         IN  MergeRelsAnyEnd(IF found THEN rels
                             ELSE Append(rels, [type |-> type, from |-> a, to |-> b,
                                                created_at |-> now]),
                             type, Tail(pairs), now)

\* MERGE (a)-[r:TYPE]->(b) ON CREATE SET r.created_at = datetime(), once
\* for every row (a, b) of pairs.
RECURSIVE MergeRels(_, _, _, _)
MergeRels(rels, type, pairs, now) ==
    IF pairs = <<>> THEN rels
    ELSE LET a == Head(pairs)[1]
             b == Head(pairs)[2]
             found == \E k \in DOMAIN rels :
                         /\ rels[k].type = type
                         /\ rels[k].from = a
                         /\ rels[k].to = b
         IN  MergeRels(IF found THEN rels
                       ELSE Append(rels, [type |-> type, from |-> a, to |-> b,
                                          created_at |-> now]),
                       type, Tail(pairs), now)

\* MergeWasteItem with CREATE in place of MERGE: the node is created whether
\* or not one of that name exists.
MergeWasteItemCreate(db, name, uid, now) ==
    [db EXCEPT !.nodes = Append(@,
        [label |-> "WasteItem", name |-> name, uid |-> uid,
         created_at |-> now, updated_at |-> 0])]

\* MergeWasteItem with the uid and created_at set outside ON CREATE: a
\* matched node gets them again.
MergeWasteItemReset(db, name, uid, now) ==
    LET matched == MatchNodes(db, "WasteItem", "name", name)
    IN  IF matched = {}
        THEN [db EXCEPT !.nodes = Append(@,
                [label |-> "WasteItem", name |-> name, uid |-> uid,
                 created_at |-> now, updated_at |-> 0])]
        ELSE [db EXCEPT !.nodes =
                [i \in DOMAIN @ |->
                    IF i \in matched
                    THEN [@[i] EXCEPT !.uid = uid, !.created_at = now,
                                      !.updated_at = now]
                    ELSE @[i]]]

\* MERGE (w:WasteItem {name: $name})
\*   ON CREATE SET w.uid = $uid, w.created_at = datetime()
\*   ON MATCH SET w.updated_at = datetime()
MergeWasteItem(db, name, uid, now) ==
    LET matched == MatchNodes(db, "WasteItem", "name", name)
    IN  IF matched = {}
        THEN [db EXCEPT !.nodes = Append(@,
                [label |-> "WasteItem", name |-> name, uid |-> uid,
                 created_at |-> now, updated_at |-> 0])]
        ELSE [db EXCEPT !.nodes =
                [i \in DOMAIN @ |->
                    IF i \in matched THEN [@[i] EXCEPT !.updated_at = now]
                    ELSE @[i]]]

\* MATCH (w:WasteItem {name: $item_name})
\* MERGE (s:WasteStream {name: $stream_name})
\*   ON CREATE SET s.uid = $stream_uid, s.created_at = datetime()
\* MERGE (w)-[r:DISPOSED_IN]->(s) ON CREATE SET r.created_at = datetime()
\* RETURN ...           record: whether result.single() gives a record.
MergeStreamRel(db, item_name, stream_name, stream_uid, now) ==
    LET ws == MatchNodes(db, "WasteItem", "name", item_name)
        found == MatchNodes(db, "WasteStream", "name", stream_name)
        nodes1 == IF ws = {} \/ found # {} THEN db.nodes
                  ELSE Append(db.nodes,
                          [label |-> "WasteStream", name |-> stream_name,
                           uid |-> stream_uid, created_at |-> now])
        ss == IF found # {} THEN found ELSE {Len(nodes1)}
    IN  IF ws = {} THEN [db |-> db, record |-> FALSE]
        ELSE [db |-> [nodes |-> nodes1,
                      rels  |-> MergeRels(db.rels, "DISPOSED_IN",
                                          SortedPairs(ws \X ss), now)],
              record |-> TRUE]

\* MatchFacilityRel with MERGE in place of the second MATCH: a Facility of
\* that name is created when none exists.
MatchFacilityRelCreate(db, item_name, facility_name, now) ==
    LET ws == MatchNodes(db, "WasteItem", "name", item_name)
        found == MatchNodes(db, "Facility", "name", facility_name)
        nodes1 == IF ws = {} \/ found # {} THEN db.nodes
                  ELSE Append(db.nodes,
                          [label |-> "Facility", uid |-> generate_uid(facility_name),
                           name |-> facility_name, address |-> "",
                           opening_hours |-> "", contact |-> "",
                           additional_info |-> "", link |-> "",
                           created_at |-> now, updated_at |-> 0])
        fs == IF found # {} THEN found ELSE {Len(nodes1)}
    IN  IF ws = {} THEN [db |-> db, record |-> FALSE]
        ELSE [db |-> [nodes |-> nodes1,
                      rels  |-> MergeRels(db.rels, "DISPOSED_AT",
                                          SortedPairs(ws \X fs), now)],
              record |-> TRUE]

\* MATCH (w:WasteItem {name: $item_name})
\* MATCH (f:Facility {name: $facility_name})
\* MERGE (w)-[r:DISPOSED_AT]->(f) ON CREATE SET r.created_at = datetime()
\* RETURN ...
MatchFacilityRel(db, item_name, facility_name, now) ==
    LET ws == MatchNodes(db, "WasteItem", "name", item_name)
        fs == MatchNodes(db, "Facility", "name", facility_name)
    IN  IF ws = {} \/ fs = {} THEN [db |-> db, record |-> FALSE]
        ELSE [db |-> [db EXCEPT !.rels = MergeRels(@, "DISPOSED_AT",
                                            SortedPairs(ws \X fs), now)],
              record |-> TRUE]

\* The fields of a facility the importer passes on.
FacilityFields == {"address", "opening_hours", "contact", "additional_info", "link"}

\* OnMatchField without the CASE: f.x = $x
OnMatchFieldOverwrite(incoming, stored) == incoming

\* f.x = CASE WHEN $x <> '' THEN $x ELSE f.x END
OnMatchField(incoming, stored) == IF incoming # "" THEN incoming ELSE stored

\* MergeFacility with CREATE in place of MERGE.
MergeFacilityCreate(db, uid, name, facility, now) ==
    [db EXCEPT !.nodes = Append(@,
        [label |-> "Facility", uid |-> uid, name |-> name,
         address |-> facility.address,
         opening_hours |-> facility.opening_hours,
         contact |-> facility.contact,
         additional_info |-> facility.additional_info,
         link |-> facility.link,
         created_at |-> now, updated_at |-> 0])]

\* MERGE (f:Facility {uid: $uid}) ON CREATE SET ... ON MATCH SET ...
MergeFacility(db, uid, name, facility, now) ==
    LET matched == MatchNodes(db, "Facility", "uid", uid)
    IN  IF matched = {}
        THEN [db EXCEPT !.nodes = Append(@,
                [label |-> "Facility", uid |-> uid, name |-> name,
                 address |-> facility.address,
                 opening_hours |-> facility.opening_hours,
                 contact |-> facility.contact,
                 additional_info |-> facility.additional_info,
                 link |-> facility.link,
                 created_at |-> now, updated_at |-> 0])]
        ELSE [db EXCEPT !.nodes =
                [i \in DOMAIN @ |->
                    IF i \in matched
                    THEN [@[i] EXCEPT
                            !.address = OnMatchField(facility.address, @),
                            !.opening_hours = OnMatchField(facility.opening_hours, @),
                            !.contact = OnMatchField(facility.contact, @),
                            !.additional_info = OnMatchField(facility.additional_info, @),
                            !.link = OnMatchField(facility.link, @),
                            !.updated_at = now]
                    ELSE @[i]]]

\* MATCH (f:Facility) RETURN f.name AS name, as a set
get_existing_facilities(db) ==
    {db.nodes[i].name : i \in {j \in DOMAIN db.nodes : db.nodes[j].label = "Facility"}}

(***************************************************************************)
(* src/etl/facilities.py: load_facilities and import_facilities.           *)
(*                                                                         *)
(* A directory is the list of the facility entries of the JSON file in     *)
(* the order the loader visits them; an entry has a name and the five      *)
(* optional fields ("" when absent).                                       *)
(***************************************************************************)

\* The else branch of load_facilities: fill the empty keys of the entry
\* already seen with the non-empty values of a later entry of that name.
MergeEntry(existing, facility) ==
    [key \in DOMAIN existing |->
        IF facility[key] # "" /\ existing[key] = "" THEN facility[key]
        ELSE existing[key]]

RECURSIVE load_entries(_, _)
load_entries(entries, seen) ==
    IF entries = <<>> THEN seen
    ELSE LET facility == Head(entries)
             name == strip(facility.name)
             at == {i \in DOMAIN seen : strip(seen[i].name) = name}
         IN  load_entries(Tail(entries),
                IF name = "" THEN seen
                ELSE IF at = {} THEN Append(seen, facility)
                ELSE [i \in DOMAIN seen |->
                        IF i \in at THEN MergeEntry(seen[i], facility)
                        ELSE seen[i]])

\* load_facilities: the entries deduplicated by trimmed name, first seen first
load_facilities(directory) == load_entries(directory, <<>>)

\* The write loop of import_facilities.
RECURSIVE write_facilities(_, _, _, _)
write_facilities(db, facilities, created, now) ==
    IF facilities = <<>> THEN [db |-> db, created |-> created]
    ELSE LET facility == Head(facilities)
             name == strip(facility.name)
         IN  write_facilities(
                MergeFacility(db, generate_uid(name), name, facility, now),
                Tail(facilities), created + 1, now)

import_facilities(db, directory, dry_run, now) ==
    LET facilities == load_facilities(directory)
    IN  IF dry_run
        THEN [db |-> db,
              stats |-> [loaded |-> Len(facilities), created |-> 0,
                         dry_run |-> TRUE]]
        ELSE LET w == write_facilities(db, facilities, 0, now)
             IN  [db |-> w.db,
                  stats |-> [loaded |-> Len(facilities), created |-> w.created,
                             dry_run |-> FALSE]]

(***************************************************************************)
(* src/etl/waste_items.py: load_waste_items and import_waste_items.        *)
(*                                                                         *)
(* A catalog is the list of the rows csv.DictReader yields; a row has the  *)
(* columns Abfallart and Entsorgungsweg.                                   *)
(***************************************************************************)

Letters ==
    {SubSeq(UpperChars, i, i) : i \in 1..Len(UpperChars)}
        \cup {SubSeq(LowerChars, i, i) : i \in 1..Len(LowerChars)} \cup {"ß"}

\* is_section_marker that reads the two columns as they are, untrimmed.
is_section_marker_untrimmed(row) ==
    /\ Len(row.Abfallart) = 1
    /\ row.Abfallart \in Letters
    /\ row.Entsorgungsweg = ""

is_section_marker(row) ==
    LET abfallart == strip(row.Abfallart)
        entsorgungsweg == strip(row.Entsorgungsweg)
    IN  Len(abfallart) = 1 /\ abfallart \in Letters /\ entsorgungsweg = ""

\* The lists that hold every element of S once: the orders list(set(...))
\* can give.
RECURSIVE Orders(_)
Orders(S) ==
    IF S = {} THEN {<<>>}
    ELSE UNION {{<<x>> \o t : t \in Orders(S \ {x})} : x \in S}

\* load_waste_items: the item lists the load can return, one for every
\* order in which parse_disposal_targets may list each row's targets.
RECURSIVE load_waste_items(_)
load_waste_items(rows) ==
    IF rows = <<>> THEN {<<>>}
    ELSE LET row == Head(rows)
             name == strip(row.Abfallart)
             rest == load_waste_items(Tail(rows))
         IN  IF is_section_marker(row) \/ name = "" THEN rest
             ELSE {<<[name |-> name, disposal_targets |-> t]>> \o r :
                      t \in Orders(parse_disposal_targets(row.Entsorgungsweg)),
                      r \in rest}

\* The dry-run loop of import_waste_items: the sets streams_needed and
\* unmatched_facilities.
DryRunSets(items, existing_facilities) ==
    LET targets == UNION {Range(items[i].disposal_targets) : i \in DOMAIN items}
    IN  [streams_needed |-> {classify_target(t, existing_facilities)[2] :
                t \in {u \in targets :
                         classify_target(u, existing_facilities)[1] = "stream"}},
         unmatched_facilities |-> {classify_target(t, existing_facilities)[2] :
                t \in {u \in targets :
                         /\ classify_target(u, existing_facilities)[1] # "stream"
                         /\ classify_target(u, existing_facilities)[2]
                                \notin existing_facilities}}]

\* One pass of the loop over item['disposal_targets'] in import_waste_items:
\* the statement for one target and the counters it moves.
LinkTarget(acc, name, target, existing_facilities, now) ==
    LET c == classify_target(target, existing_facilities)
    IN  IF c[1] = "stream"
        THEN LET r == MergeStreamRel(acc.db, name, c[2], generate_uid(c[2]), now)
             IN  [acc EXCEPT
                    !.db = r.db,
                    !.streams_created = IF r.record THEN @ + 1 ELSE @,
                    !.relationships_created = IF r.record THEN @ + 1 ELSE @]
        ELSE LET r == MatchFacilityRel(acc.db, name, c[2], now)
             IN  [acc EXCEPT
                    !.db = r.db,
                    !.relationships_created = IF r.record THEN @ + 1 ELSE @,
                    !.warnings = IF r.record THEN @
                                 ELSE Append(@, [warning |-> "Could not link to facility",
                                                 names |-> {c[2]}])]

RECURSIVE link_targets(_, _, _, _, _)
link_targets(acc, name, targets, existing_facilities, now) ==
    IF targets = <<>> THEN acc
    ELSE link_targets(LinkTarget(acc, name, Head(targets), existing_facilities, now),
                      name, Tail(targets), existing_facilities, now)

\* One pass of the loop over items: the WasteItem upsert, then the targets.
WriteItem(acc, item, existing_facilities, now) ==
    link_targets(
        [acc EXCEPT
            !.db = MergeWasteItem(@, item.name, generate_uid(item.name), now),
            !.items_created = @ + 1],
        item.name, item.disposal_targets, existing_facilities, now)

RECURSIVE write_items(_, _, _, _)
write_items(acc, items, existing_facilities, now) ==
    IF items = <<>> THEN acc
    ELSE write_items(WriteItem(acc, Head(items), existing_facilities, now),
                     Tail(items), existing_facilities, now)

\* The dry-run branch of import_waste_items: nothing is written; the
\* statistics and the warning come from the classification of the targets.
DryRun(db, items, existing_facilities) ==
    LET d == DryRunSets(items, existing_facilities)
    IN  [db |-> db,
         stats |-> [items_loaded |-> Len(items),
                    items_created |-> 0,
                    streams_needed |-> Cardinality(d.streams_needed),
                    relationships_created |-> 0,
                    dry_run |-> TRUE],
         warnings |-> IF d.unmatched_facilities = {} THEN <<>>
                      ELSE <<[warning |-> "Unmatched facilities (will be created)",
                              names |-> d.unmatched_facilities]>>]

\* The writing branch of import_waste_items.
RealRun(db, items, existing_facilities, now) ==
    LET w == write_items(
                [db |-> db, items_created |-> 0, streams_created |-> 0,
                 relationships_created |-> 0, warnings |-> <<>>],
                items, existing_facilities, now)
    IN  [db |-> w.db,
         stats |-> [items_loaded |-> Len(items),
                    items_created |-> w.items_created,
                    streams_created |-> w.streams_created,
                    relationships_created |-> w.relationships_created,
                    dry_run |-> FALSE],
         warnings |-> w.warnings]

\* import_waste_items whose dry run reports as a dry run and writes as a
\* real run.
import_waste_items_dry_writes(db, items, dry_run, now) ==
    LET existing_facilities == get_existing_facilities(db)
        real == RealRun(db, items, existing_facilities, now)
    IN  IF dry_run
        THEN [DryRun(db, items, existing_facilities) EXCEPT !.db = real.db]
        ELSE real

\* import_waste_items once load_waste_items has returned items: the new
\* database, the statistics returned and the warnings logged.
import_waste_items(db, items, dry_run, now) ==
    LET existing_facilities == get_existing_facilities(db)
    IN  IF dry_run
        THEN DryRun(db, items, existing_facilities)
        ELSE RealRun(db, items, existing_facilities, now)

(***************************************************************************)
(* The importers run against one store.                                    *)
(***************************************************************************)

VARIABLES
    nodes,      \* the nodes of the store, in creation order
    rels,       \* the relationships of the store, in creation order
    clock,      \* the time of the next importer run, as datetime() gives it
    call,       \* the last importer call: [op, dry_run, source]
    before,     \* the database as it was when that call started
    repeat,     \* that call was a real waste-item import which directly
                \* followed a real waste-item import of the same catalog
    stats,      \* the statistics that call returned
    warnings,   \* the warnings that call logged
    fn,         \* text engine: the function under study
    arg,        \* text engine: its argument
    ret,        \* text engine: <<>> before the call, <<value>> after it
    pc,         \* a run followed statement by statement: where it stands
    log         \* that run: the rows parsed and the statements issued so far

storeVars == <<nodes, rels, clock, call, before, repeat, stats, warnings>>
textVars == <<fn, arg, ret>>
stepVars == <<pc, log>>
vars ==
    <<nodes, rels, clock, call, before, repeat, stats, warnings, fn, arg, ret,
      pc, log>>

\* Bounds of the model.
MaxRows == 2        \* rows of a catalog
MaxEntries == 2     \* entries of a facility directory
MaxRuns == 2        \* importer runs of a behaviour

Row(a, e) == [Abfallart |-> a, Entsorgungsweg |-> e]

\* Catalog rows: facility targets in a multi-line cell, one of them under a
\* variant name, and a note; an item under a name with a blank whose long
\* single-line cell names a stream and a facility.
RowPool ==
    { Row("Batterien", "Schadstoffsammlung FES\nWertstoffhof Nord\nLaut FES: Hinweis"),
      Row(" Zeitungen", "Altpapiertonne Wertstoffhof Nord") }

Entry(n, a, o, c, i, l) ==
    [name |-> n, address |-> a, opening_hours |-> o, contact |-> c,
     additional_info |-> i, link |-> l]

\* Directory entries: a facility under a name with blanks, without an
\* address and with a contact and a link; a second facility.
EntryPool ==
    { Entry(" Wertstoffhof Nord ", "", "", "069 212", "", "fes.de/nord"),
      Entry("Schadstoffsammlung", "", "Di 9-12", "", "", "") }

SeqsUpTo(S, n) == UNION {[1..k -> S] : k \in 0..n}

Catalogs == SeqsUpTo(RowPool, MaxRows)

\* What load_waste_items can return for each catalog (evaluated once).
LoadedItems == Table([catalog \in Catalogs |-> load_waste_items(catalog)])
Directories == SeqsUpTo(EntryPool, MaxEntries)

\* The stores a behaviour starts from: the empty store after init_db, and
\* the store after the facility import the waste-item import relies on,
\* which ran at time 1.  The runs of the behaviour start at time 2.
SeedDirectories ==
    { <<>>,
      <<Entry("Wertstoffhof Nord", "Max-Holder-Str. 29", "Mo-Sa 8-17", "", "", "")>> }

InitialDbs ==
    {import_facilities(EmptyDb, d, FALSE, 1).db : d \in SeedDirectories}

NoCall == [op |-> "none", dry_run |-> FALSE, source |-> <<>>]

\* No importer has run; the text engine is not under study.
StoreIdle ==
    /\ clock = 2
    /\ call = NoCall
    /\ before = EmptyDb
    /\ repeat = FALSE
    /\ stats = [dry_run |-> FALSE]
    /\ warnings = <<>>

\* No run is followed statement by statement.
StepIdle ==
    /\ pc = [at |-> "idle"]
    /\ log = <<>>

Init ==
    /\ \E db \in InitialDbs : nodes = db.nodes /\ rels = db.rels
    /\ StoreIdle
    /\ StepIdle
    /\ fn = "none"
    /\ arg = <<>>
    /\ ret = <<>>

\* Whether the model lets one more run start.
CanRun == clock < 2 + MaxRuns

Db == [nodes |-> nodes, rels |-> rels]

\* python -m src.etl.facilities [--dry-run]
ImportFacilities ==
    \E directory \in Directories, dry_run \in BOOLEAN :
        LET r == import_facilities(Db, directory, dry_run, clock)
        IN  /\ CanRun
            /\ nodes' = r.db.nodes
            /\ rels' = r.db.rels
            /\ clock' = clock + 1
            /\ call' = [op |-> "import_facilities", dry_run |-> dry_run,
                        source |-> directory]
            /\ before' = Db
            /\ repeat' = FALSE
            /\ stats' = r.stats
            /\ warnings' = <<>>
            /\ UNCHANGED <<textVars, stepVars>>

\* python -m src.etl.waste_items [--dry-run]
ImportWasteItems ==
    \E catalog \in Catalogs, dry_run \in BOOLEAN :
        \E items \in LoadedItems[catalog] :
            LET r == import_waste_items(Db, items, dry_run, clock)
            IN  /\ CanRun
                /\ nodes' = r.db.nodes
                /\ rels' = r.db.rels
                /\ clock' = clock + 1
                /\ call' = [op |-> "import_waste_items", dry_run |-> dry_run,
                            source |-> catalog]
                /\ before' = Db
                /\ repeat' = /\ ~dry_run
                             /\ call = [op |-> "import_waste_items",
                                        dry_run |-> FALSE, source |-> catalog]
                /\ stats' = r.stats
                /\ warnings' = r.warnings
                /\ UNCHANGED <<textVars, stepVars>>

Next == ImportFacilities \/ ImportWasteItems

Spec == Init /\ [][Next]_vars

(***************************************************************************)
(* Properties of the importers.                                            *)
(***************************************************************************)

RealWasteImport == call.op = "import_waste_items" /\ ~call.dry_run
DryWasteImport == call.op = "import_waste_items" /\ call.dry_run
RealFacilityImport == call.op = "import_facilities" /\ ~call.dry_run

\* The time at which the last call ran.
CallTime == clock - 1

\* The rows of the last call's catalog that load_waste_items keeps.
ItemRows ==
    {k \in DOMAIN call.source :
        /\ ~is_section_marker(call.source[k])
        /\ strip(call.source[k].Abfallart) # ""}

ItemName(k) == strip(call.source[k].Abfallart)
\* The targets of each row of the pool (evaluated once).
RowTargets ==
    Table([row \in RowPool |-> parse_disposal_targets(row.Entsorgungsweg)])
ItemTargets(k) == RowTargets[call.source[k]]

\* A relationship of the given type joins a WasteItem and a node of the
\* given label with these names.
Linked(type, item_name, label, target_name) ==
    \E r \in DOMAIN rels :
        /\ rels[r].type = type
        /\ nodes[rels[r].from].label = "WasteItem"
        /\ nodes[rels[r].from].name = item_name
        /\ nodes[rels[r].to].label = label
        /\ nodes[rels[r].to].name = target_name

FacilityNamesBefore ==
    {before.nodes[i].name :
        i \in {j \in DOMAIN before.nodes : before.nodes[j].label = "Facility"}}

\* C1 as stated: after the second of two real waste-item imports of the same
\* catalog the whole graph state, properties included, is the state the
\* first import left.
C1_SecondRunSameState ==
    repeat => nodes = before.nodes /\ rels = before.rels

\* C1 amended: the second of two real waste-item imports of the same catalog
\* adds no node and no relationship and leaves every node and relationship
\* as it was, apart from the updated_at of the WasteItem nodes it matched.
C1_SecondRunAddsNothing ==
    repeat =>
        /\ rels = before.rels
        /\ Len(nodes) = Len(before.nodes)
        /\ \A i \in DOMAIN nodes :
              \/ nodes[i] = before.nodes[i]
              \/ /\ nodes[i].label = "WasteItem"
                 /\ before.nodes[i].label = "WasteItem"
                 /\ nodes[i] = [before.nodes[i] EXCEPT !.updated_at = CallTime]

\* A second import of a catalog that has given both kinds of relationship.
C1_Witness ==
    /\ repeat
    /\ \E r \in DOMAIN rels : rels[r].type = "DISPOSED_AT"
    /\ \E r \in DOMAIN rels : rels[r].type = "DISPOSED_IN"
    /\ nodes # before.nodes

\* C2: the store never holds two nodes of one label with the same name.
C2_OneNodePerName ==
    \A i, j \in DOMAIN nodes :
        (i # j /\ nodes[i].label = nodes[j].label) => nodes[i].name # nodes[j].name

\* A directory that repeats the name of a stored Facility has been imported
\* after a catalog that repeats an item name.
C2_Witness ==
    /\ RealFacilityImport
    /\ Len(call.source) = 2
    /\ strip(call.source[1].name) = strip(call.source[2].name)
    /\ strip(call.source[1].name) \in FacilityNamesBefore
    /\ \E i \in DOMAIN nodes : nodes[i].label = "WasteItem" /\ nodes[i].updated_at = nodes[i].created_at

\* C3: a real facility import leaves every non-empty field of a Facility that
\* was already stored as it was when the incoming value of the field is
\* empty.
C3_KeepsStoredFields ==
    RealFacilityImport =>
        \A e \in DOMAIN load_facilities(call.source) :
            \A i \in DOMAIN before.nodes :
                \A key \in FacilityFields :
                    ( /\ before.nodes[i].label = "Facility"
                      /\ before.nodes[i].name = strip(load_facilities(call.source)[e].name)
                      /\ before.nodes[i][key] # ""
                      /\ load_facilities(call.source)[e][key] = "" )
                    => nodes[i][key] = before.nodes[i][key]

\* A stored Facility has been imported again with an empty address and a new
\* contact: the address is kept and the contact taken.
C3_Witness ==
    /\ RealFacilityImport
    /\ \E i \in DOMAIN before.nodes :
          /\ before.nodes[i].label = "Facility"
          /\ before.nodes[i].address # ""
          /\ before.nodes[i].contact = ""
          /\ \E e \in DOMAIN load_facilities(call.source) :
                /\ strip(load_facilities(call.source)[e].name) = before.nodes[i].name
                /\ load_facilities(call.source)[e].address = ""
                /\ load_facilities(call.source)[e].contact # ""
          /\ nodes[i].address = before.nodes[i].address
          /\ nodes[i].contact # ""

\* C4: a dry run of the waste-item import leaves the nodes and relationships
\* of the store as they were, while its statistics show that every item was
\* loaded and every target classified.
C4_DryRunWritesNothing ==
    DryWasteImport =>
        /\ nodes = before.nodes
        /\ rels = before.rels
        /\ stats.items_loaded = Cardinality(ItemRows)
        /\ stats.streams_needed =
              Cardinality(UNION {ItemTargets(k) : k \in ItemRows} \cap WASTE_STREAMS)

\* A dry run over a catalog with a stream target and an unmatched facility,
\* against a store that holds nodes.
C4_Witness ==
    /\ DryWasteImport
    /\ stats.items_loaded > 0
    /\ stats.streams_needed > 0
    /\ warnings # <<>>
    /\ nodes # <<>>

\* The facility targets of the last catalog without a Facility of that name.
Unmatched ==
    {<<k, t>> \in ItemRows \X UNION {ItemTargets(k) : k \in ItemRows} :
        /\ t \in ItemTargets(k)
        /\ t \notin WASTE_STREAMS
        /\ t \notin FacilityNamesBefore}

TextInit(f, inputs) ==
    /\ nodes = <<>>
    /\ rels = <<>>
    /\ StoreIdle
    /\ StepIdle
    /\ fn = f
    /\ arg \in inputs
    /\ ret = <<>>

Returned(f) == fn = f /\ ret # <<>>

\* classify_target -----------------------------------------------------------

\* Target names: the streams, a synonym, other letter case, a trailing
\* blank, facilities, the empty name.
ClassifyNames ==
    WASTE_STREAMS \cup
    { "Restmülltonne", "biotonne", "Biotonne ", "Gelbe Tonne", "",
      "Wertstoffhof Nord", "Schadstoffsammlung" }

\* Names the store may hold as Facility names, a stream name among them.
KnownNames == {"Wertstoffhof Nord", "Schadstoffsammlung", "Biotonne", "Restabfalltonne"}

ClassifyInputs ==
    [target_name : ClassifyNames, existing_facilities : SUBSET KnownNames]

InitClassify == TextInit("classify_target", ClassifyInputs)

Classify ==
    /\ fn = "classify_target"
    /\ ret = <<>>
    /\ ret' = <<classify_target(arg.target_name, arg.existing_facilities)>>
    /\ UNCHANGED <<fn, arg>>
    /\ UNCHANGED <<storeVars, stepVars>>

SpecClassify == InitClassify /\ [][Classify]_vars

\* C6: classify_target returns one of stream and facility with the name it
\* was given, and stream exactly for the names of WASTE_STREAMS, whatever
\* the set of known facilities holds.
C6_StreamIffEnumerated ==
    Returned("classify_target") =>
        /\ ret[1][1] \in {"stream", "facility"}
        /\ ret[1][2] = arg.target_name
        /\ (ret[1][1] = "stream") <=> (arg.target_name \in WASTE_STREAMS)

\* A stream name that is also a known facility name has been classified.
C6_Witness ==
    /\ Returned("classify_target")
    /\ arg.target_name \in WASTE_STREAMS
    /\ arg.target_name \in arg.existing_facilities
    /\ ret[1] = <<"stream", arg.target_name>>

\* is_valid_facility_name ----------------------------------------------------

UpperMap ==
    [c \in {SubSeq(LowerChars, i, i) : i \in 1..Len(LowerChars)} |->
        LET i == CHOOSE k \in 1..Len(LowerChars) : SubSeq(LowerChars, k, k) = c
        IN  SubSeq(UpperChars, i, i)]

\* The text in capital letters, for building inputs.
RECURSIVE Capitals(_)
Capitals(s) ==
    IF Len(s) = 0 THEN ""
    ELSE IF Len(s) = 1 THEN (IF s \in DOMAIN UpperMap THEN UpperMap[s] ELSE s)
    ELSE LET h == Len(s) \div 2
         IN  Capitals(SubSeq(s, 1, h)) \o Capitals(SubSeq(s, h + 1, Len(s)))

\* What the filter looks for, in small and in capital letters, and texts it
\* has nothing against.
ValidCores ==
    Range(skip_patterns) \cup {Capitals(p) : p \in Range(skip_patterns)}
        \cup Range(skip_prefixes) \cup {Capitals(p) : p \in Range(skip_prefixes)}
        \cup {" oder ", " ODER ", "", "x", "ab", "Wertstoffhof", "Biotonne"}

\* What stands before and after.
ValidPads == {"", " ", "Hof", "Hof ", " FES", "\t"}

ValidInputs ==
    {[name |-> p \o c \o q] : p \in ValidPads, c \in ValidCores, q \in ValidPads}

InitValid == TextInit("is_valid_facility_name", ValidInputs)

Validate ==
    /\ fn = "is_valid_facility_name"
    /\ ret = <<>>
    /\ ret' = <<is_valid_facility_name(arg.name)>>
    /\ UNCHANGED <<fn, arg>>
    /\ UNCHANGED <<storeVars, stepVars>>

SpecValid == InitValid /\ [][Validate]_vars

\* p occurs in s in some letter case (p is in small letters).
ContainsAnyCase(s, p) ==
    \E i \in 1..(Len(s) - Len(p) + 1) : lower(SubSeq(s, i, i + Len(p) - 1)) = p

\* s has one of the grounds for rejection the claim lists.
Disqualified(s) ==
    \/ \E k \in DOMAIN skip_patterns : ContainsAnyCase(s, skip_patterns[k])
    \/ Len(strip(s)) < 3
    \/ \E k \in DOMAIN skip_prefixes :
          Len(s) >= Len(skip_prefixes[k])
              /\ lower(SubSeq(s, 1, Len(skip_prefixes[k]))) = skip_prefixes[k]
    \/ ContainsAnyCase(s, " oder ")

\* C7 as stated: every string with a disqualifying substring at any
\* position, with fewer than 3 characters after trimming, with one of the
\* prefixes at its start or with " oder " in it is rejected.
C7_RejectsEveryDisqualified ==
    (Returned("is_valid_facility_name") /\ Disqualified(arg.name)) => ret[1] = FALSE

\* C7 amended: every string whose trimmed form has a disqualifying
\* substring, fewer than 3 characters, one of the prefixes at its start or
\* " oder " in it is rejected.
C7_RejectsDisqualifiedTrimmed ==
    (Returned("is_valid_facility_name") /\ Disqualified(strip(arg.name)))
        => ret[1] = FALSE

\* A name with a disqualifying substring in capital letters between other
\* text has been rejected.
C7_Witness ==
    /\ Returned("is_valid_facility_name")
    /\ arg.name = "Hof POLIZEI FES"
    /\ ret[1] = FALSE

\* extract_facilities_from_concat --------------------------------------------

\* Two distinct names of the pattern catalog.
SplitInputs ==
    {p \in [a : Range(known_patterns), b : Range(known_patterns)] : p.a # p.b}

InitSplit == TextInit("extract_facilities_from_concat", SplitInputs)

Split ==
    /\ fn = "extract_facilities_from_concat"
    /\ ret = <<>>
    /\ ret' = <<extract_facilities_from_concat(arg.a \o arg.b)>>
    /\ UNCHANGED <<fn, arg>>
    /\ UNCHANGED <<storeVars, stepVars>>

SpecSplit == InitSplit /\ [][Split]_vars

\* How often x is in the list.
Count(list, x) == Cardinality({i \in DOMAIN list : list[i] = x})

\* C8 as stated: the splitter applied to A directly followed by B returns
\* A once, B once and nothing else.
C8_RecoversBothNames ==
    Returned("extract_facilities_from_concat") =>
        /\ Count(ret[1], arg.a) = 1
        /\ Count(ret[1], arg.b) = 1
        /\ Len(ret[1]) = 2

\* C8 amended: the splitter applied to A directly followed by B returns two
\* entries, the canonical form of A and the canonical form of B.
C8_RecoversBothCanonicalNames ==
    Returned("extract_facilities_from_concat") =>
        LET na == normalize_facility_name(arg.a)
            nb == normalize_facility_name(arg.b)
        IN  ret[1] = <<na, nb>> \/ ret[1] = <<nb, na>>

\* A name that contains another name of the catalog, followed by a variant
\* name, has been split.
C8_Witness ==
    /\ Returned("extract_facilities_from_concat")
    /\ arg.a = "Self Service am Wertstoffhof Nord"
    /\ arg.b = "Abfallumladeanlage FES"
    /\ ret[1] = <<"Self Service am Wertstoffhof Nord", "FES-Abfallumladeanlage">>

\* parse_disposal_targets ----------------------------------------------------

\* Cells made of two names of the pattern catalog and one blank, and the
\* cell of three names the documentation gives.
JoinedCells ==
    {[names |-> <<a, b>>, cell |-> a \o " " \o b] :
        a \in Range(known_patterns), b \in Range(known_patterns)}
    \cup
    {[names |-> <<"Wertstoffhof Nord", "Wertstoffhof West", "Schadstoffsammlung">>,
      cell  |-> "Wertstoffhof Nord Wertstoffhof West Schadstoffsammlung"]}

\* Cells without content, cells of notes, cells of one name, multi-line
\* cells, a long cell without a known name.
PlainCells ==
    {[names |-> <<>>, cell |-> c] : c \in
        { "", "-", " - ", "  ", "\n", "-\n-", "- \n", "ab",
          "Laut FES: Hinweis", "Hinweis", "Polizei", "Laut Hersteller\nHinweis",
          "1 Stück = 1 Karton", "Sonst nach Absprache mit dem Hersteller fragen",
          "haushaltsübliche Mengen", "Größere Mengen",
          "Restmülltonne", "Wertstoffhof", "Biotonne", "Schadstoffsammlung FES",
          "Laut FES: Biotonne", "1 Stück = Sperrmüll",
          "Schadstoffsammlung\nRestmülltonne\n-\nLaut FES: Hinweis",
          "Wertstoffhof Nord oder Wertstoffhof Süd",
          "Annahmestelle der Stadtverwaltung Frankfurt am Main" }}

ParseInputs == JoinedCells \cup PlainCells

InitParse == TextInit("parse_disposal_targets", ParseInputs)

Parse ==
    /\ fn = "parse_disposal_targets"
    /\ ret = <<>>
    /\ ret' = <<parse_disposal_targets(arg.cell)>>
    /\ UNCHANGED <<fn, arg>>
    /\ UNCHANGED <<storeVars, stepVars>>

SpecParse == InitParse /\ [][Parse]_vars

\* C9: for a cell of more than 30 characters without a line break that joins
\* names of the pattern catalog with single blanks, the parser returns the
\* set of the canonical forms of those names.
C9_JoinedNamesRecovered ==
    ( /\ Returned("parse_disposal_targets")
      /\ arg.names # <<>>
      /\ Len(arg.cell) > 30
      /\ ~Contains(arg.cell, "\n") )
    => ret[1] = {normalize_facility_name(arg.names[i]) : i \in DOMAIN arg.names}

\* The candidates of a cell: its lines when it has a line break, else the
\* cell.
Candidates(cell) ==
    IF Contains(cell, "\n") THEN Range(split_lines(cell)) ELSE {cell}

\* Every candidate of the cell is rejected by the validity filter and no
\* pattern of the catalog occurs in it.
NothingToFind(cell) ==
    \A c \in Candidates(cell) :
        /\ ~is_valid_facility_name(c)
        /\ \A k \in DOMAIN known_patterns :
              ~ContainsAnyCase(c, lower(known_patterns[k]))

\* C10: the parser returns no target for an empty cell, for a lone dash and
\* for a cell whose candidates the validity filter rejects and which holds
\* no pattern of the catalog.
C10_NoTargets ==
    ( /\ Returned("parse_disposal_targets")
      /\ \/ arg.cell = ""
         \/ strip(arg.cell) = "-"
         \/ NothingToFind(arg.cell) )
    => ret[1] = {}

\* The cell of notes the documentation gives has been parsed.
C10_Witness ==
    /\ Returned("parse_disposal_targets")
    /\ arg.cell = "Laut FES: Hinweis"
    /\ ret[1] = {}

\* normalize_facility_name, and a name as a whole cell ------------------------

\* Names: the keys of the variant table, its canonical forms, a key in
\* small letters, a key with two blanks inside, other names, the empty name.
NormalizeNames ==
    DOMAIN FACILITY_NAME_MAP \cup Range(FACILITY_NAME_MAP) \cup WASTE_STREAMS \cup
    { "restmülltonne", "Abfallumladeanlage  FES", "Schadstoffmobil",
      "Wertstoffhof Nord", "Fachhandel", "" }

NormalizePads == {"", " ", "\t "}

NormalizeInputs ==
    {[name |-> l \o n \o r] : l \in NormalizePads, n \in NormalizeNames, r \in NormalizePads}

InitNormalize == TextInit("normalize_facility_name", NormalizeInputs)

Normalize ==
    /\ fn = "normalize_facility_name"
    /\ ret = <<>>
    /\ ret' = <<normalize_facility_name(arg.name)>>
    /\ UNCHANGED <<fn, arg>>
    /\ UNCHANGED <<storeVars, stepVars>>

\* The name is then taken as the whole text of a target cell.
ParseWholeCell ==
    /\ Returned("normalize_facility_name")
    /\ fn' = "parse_disposal_targets"
    /\ arg' = [cell |-> arg.name]
    /\ ret' = <<parse_disposal_targets(arg.name)>>
    /\ UNCHANGED <<storeVars, stepVars>>

\* A target of the parsed cell is then classified, as import_waste_items
\* does against the Facility names of some store.
ClassifyParsed ==
    /\ Returned("parse_disposal_targets")
    /\ \E target_name \in ret[1], existing_facilities \in SUBSET {"Restabfalltonne", "Schadstoffsammlung"} :
          /\ arg' = [cell |-> arg.cell, target_name |-> target_name,
                     existing_facilities |-> existing_facilities]
          /\ ret' = <<classify_target(target_name, existing_facilities)>>
    /\ fn' = "classify_target"
    /\ UNCHANGED <<storeVars, stepVars>>

SpecNormalize ==
    InitNormalize /\ [][Normalize \/ ParseWholeCell \/ ClassifyParsed]_vars

\* C11: normalize_facility_name returns the canonical form when the trimmed
\* name is a key of the variant table and the trimmed name otherwise; a key
\* of the table as a whole cell is parsed to the set of its canonical form;
\* the target parsed from "Restmülltonne" is classified as the stream
\* "Restabfalltonne".
C11_CanonicalForm ==
    /\ Returned("normalize_facility_name") =>
          ret[1] = IF strip(arg.name) \in DOMAIN FACILITY_NAME_MAP
                   THEN FACILITY_NAME_MAP[strip(arg.name)]
                   ELSE strip(arg.name)
    /\ (Returned("parse_disposal_targets") /\ arg.cell \in DOMAIN FACILITY_NAME_MAP) =>
          ret[1] = {FACILITY_NAME_MAP[arg.cell]}
    /\ (Returned("classify_target") /\ arg.cell = "Restmülltonne") =>
          ret[1] = <<"stream", "Restabfalltonne">>

\* The synonym of the documentation has been parsed as a whole cell and its
\* target classified against a store that holds a Facility of that name.
C11_Witness ==
    /\ Returned("classify_target")
    /\ arg.cell = "Restmülltonne"
    /\ arg.target_name = "Restabfalltonne"
    /\ "Restabfalltonne" \in arg.existing_facilities
    /\ ret[1] = <<"stream", "Restabfalltonne">>

\* load_waste_items -----------------------------------------------------------

\* Rows of a catalog with both columns: section markers, plain and with
\* blanks around the letter and in the target column; a letter with a dash as
\* target; a digit; two letters; a row without a name; items.
LoadRowPool ==
    { Row("B", ""), Row(" B ", " "), Row("ä", "\t"), Row("B", "-"),
      Row("1", ""), Row("BB", ""), Row("", "Biotonne"), Row("  ", ""),
      Row("Akku", "Biotonne"),
      Row(" Akku ", "Restmülltonne\nWertstoffhof Nord") }

LoadInputs == {[rows |-> catalog] : catalog \in SeqsUpTo(LoadRowPool, MaxRows)}

InitLoad == TextInit("load_waste_items", LoadInputs)

\* load_waste_items returns one of the lists the orders of the targets allow.
Load ==
    /\ fn = "load_waste_items"
    /\ ret = <<>>
    /\ \E items \in load_waste_items(arg.rows) : ret' = <<items>>
    /\ UNCHANGED <<fn, arg>>
    /\ UNCHANGED <<storeVars, stepVars>>

SpecLoad == InitLoad /\ [][Load]_vars

\* The loaded list holds, in catalog order and once each, the rows of the
\* catalog with a non-empty trimmed name that are not markers.
LoadsAllBut(marker(_)) ==
    LET kept == {k \in DOMAIN arg.rows :
                    ~marker(arg.rows[k]) /\ strip(arg.rows[k].Abfallart) # ""}
        rank(k) == Cardinality({j \in kept : j <= k})
    IN  /\ Len(ret[1]) = Cardinality(kept)
        /\ \A k \in kept :
              /\ ret[1][rank(k)].name = strip(arg.rows[k].Abfallart)
              /\ Range(ret[1][rank(k)].disposal_targets) =
                    parse_disposal_targets(arg.rows[k].Entsorgungsweg)

\* A section marker as the claim words it: the item-name column is a single
\* letter and the target column is empty.
MarkerAsStated(row) ==
    Len(row.Abfallart) = 1 /\ row.Abfallart \in Letters /\ row.Entsorgungsweg = ""

\* A section marker once both columns are trimmed.
MarkerTrimmed(row) ==
    /\ Len(strip(row.Abfallart)) = 1
    /\ strip(row.Abfallart) \in Letters
    /\ strip(row.Entsorgungsweg) = ""

\* C12 as stated: the loaded list leaves out the rows whose item-name column
\* is a single letter and whose target column is empty, and holds every
\* other row with a non-empty trimmed name once, in catalog order.
C12_LoadsAllButMarkers ==
    Returned("load_waste_items") => LoadsAllBut(MarkerAsStated)

\* C12 amended: the loaded list leaves out the rows whose trimmed item name
\* is a single letter and whose trimmed target column is empty, and holds
\* every other row with a non-empty trimmed name once, in catalog order.
C12_LoadsAllButTrimmedMarkers ==
    Returned("load_waste_items") => LoadsAllBut(MarkerTrimmed)

\* A catalog of a marker with blanks and an item has been loaded: the list
\* holds the item only.
C12_Witness ==
    /\ Returned("load_waste_items")
    /\ arg.rows = <<Row(" B ", " "), Row(" Akku ", "Restmülltonne\nWertstoffhof Nord")>>
    /\ Len(ret[1]) = 1
    /\ ret[1][1].name = "Akku"

\* import_waste_items over the orders of one catalog --------------------------

\* The rows of the importers' pool and the first item again, under a name
\* with a blank, with two stream targets.
OrderRowPool ==
    RowPool \cup {Row("Batterien ", "Restmülltonne\nAltpapiertonne")}

OrderCatalogs == SeqsUpTo(OrderRowPool, MaxRows)

\* What load_waste_items can return for each of these catalogs (evaluated
\* once).
OrderLoaded == Table([catalog \in OrderCatalogs |-> load_waste_items(catalog)])

\* Starting stores: the initial stores, each after a facility import of a
\* second facility, and each after a waste-item import of one row of the
\* importers' pool; these ran at time 2.
OrderDbs ==
    InitialDbs
    \cup {import_facilities(db, <<Entry("Schadstoffsammlung", "", "Di 9-12", "", "", "")>>,
                            FALSE, 2).db : db \in InitialDbs}
    \cup UNION {{import_waste_items(db, items, FALSE, 2).db :
                    items \in {CHOOSE l \in OrderLoaded[<<row>>] : TRUE}} :
                        db \in InitialDbs, row \in RowPool}

OrderInputs == [db : OrderDbs, rows : OrderCatalogs]

InitOrder == TextInit("import_waste_items", OrderInputs)

\* The rows of a catalog in every order.
RowOrders(rows) ==
    {[i \in DOMAIN rows |-> rows[p[i]]] : p \in Orders(DOMAIN rows)}

\* A real run, at time 3, over the rows of the catalog in some order, with
\* the targets of each row in some order.
ImportPermuted ==
    /\ fn = "import_waste_items"
    /\ ret = <<>>
    /\ \E rows \in RowOrders(arg.rows) :
          \E items \in OrderLoaded[rows] :
              ret' = <<[rows |-> rows, items |-> items,
                        db |-> import_waste_items(arg.db, items, FALSE, 3).db]>>
    /\ UNCHANGED <<fn, arg>>
    /\ UNCHANGED <<storeVars, stepVars>>

SpecOrder == InitOrder /\ [][ImportPermuted]_vars

\* The graph a store holds, timestamps aside: how many nodes and
\* relationships there are, the label, name and uid of the nodes, the type
\* and the two ends of the relationships.
Graph(db) ==
    [node_count |-> Len(db.nodes),
     rel_count  |-> Len(db.rels),
     nodes |-> {<<db.nodes[i].label, db.nodes[i].name, db.nodes[i].uid>> :
                   i \in DOMAIN db.nodes},
     rels  |-> {<<db.rels[r].type,
                  db.nodes[db.rels[r].from].label, db.nodes[db.rels[r].from].name,
                  db.nodes[db.rels[r].to].label, db.nodes[db.rels[r].to].name>> :
                   r \in DOMAIN db.rels}]

\* One of the lists load_waste_items can return for each catalog (evaluated
\* once).
ReferenceItems ==
    Table([catalog \in OrderCatalogs |-> CHOOSE items \in OrderLoaded[catalog] : TRUE])

\* One run over the catalog, rows in the order given.
ReferenceRun == import_waste_items(arg.db, ReferenceItems[arg.rows], FALSE, 3).db

\* C13: a real waste-item import over the rows of a catalog in any order,
\* with the targets of each row in any order, leaves the graph (nodes with
\* name and uid, relationships; timestamps aside) that the import of the
\* catalog in the order given leaves from the same starting store, so any
\* two orders give the same graph.
C13_OrderIndependent ==
    Returned("import_waste_items") =>
        \A reference \in {ReferenceRun} : Graph(ret[1].db) = Graph(reference)

\* Rows and targets in another order have been imported into a store that
\* holds a Facility: the nodes were created in another order, both kinds of
\* relationship exist.
C13_Witness ==
    /\ Returned("import_waste_items")
    /\ ret[1].rows # arg.rows
    /\ ret[1].db.nodes # ReferenceRun.nodes
    /\ ret[1].db.rels # ReferenceRun.rels
    /\ \E r \in DOMAIN ret[1].db.rels : ret[1].db.rels[r].type = "DISPOSED_AT"
    /\ \E r \in DOMAIN ret[1].db.rels : ret[1].db.rels[r].type = "DISPOSED_IN"

(***************************************************************************)
(* Further properties of the importers.                                    *)
(***************************************************************************)

\* The names of the items of the last call's catalog.
ItemNames == {ItemName(k) : k \in ItemRows}

\* C14: a WasteItem that the store held before a run keeps its name, uid and
\* created_at in that run, which changes at most its updated_at, to the time
\* of the run, and does so exactly for the items of a real waste-item
\* import; a WasteItem the store did not hold was created by a real
\* waste-item import, with the uid of its name and the time of that run as
\* created_at.
C14_UpsertSetsOnlyUpdatedAt ==
    \A i \in DOMAIN nodes :
        nodes[i].label = "WasteItem" =>
            IF i \in DOMAIN before.nodes
            THEN /\ nodes[i].name = before.nodes[i].name
                 /\ nodes[i].uid = before.nodes[i].uid
                 /\ nodes[i].created_at = before.nodes[i].created_at
                 /\ IF RealWasteImport /\ nodes[i].name \in ItemNames
                    THEN nodes[i] = [before.nodes[i] EXCEPT !.updated_at = CallTime]
                    ELSE nodes[i] = before.nodes[i]
            ELSE /\ RealWasteImport
                 /\ nodes[i].name \in ItemNames
                 /\ nodes[i].uid = generate_uid(nodes[i].name)
                 /\ nodes[i].created_at = CallTime

\* A real waste-item import has matched a WasteItem an earlier run created
\* and has created another one.
C14_Witness ==
    /\ RealWasteImport
    /\ \E i \in DOMAIN before.nodes :
          /\ before.nodes[i].label = "WasteItem"
          /\ before.nodes[i].created_at < CallTime
          /\ before.nodes[i].updated_at = 0
          /\ nodes[i].updated_at = CallTime
          /\ nodes[i].created_at = before.nodes[i].created_at
    /\ \E i \in DOMAIN nodes :
          /\ i \notin DOMAIN before.nodes
          /\ nodes[i].label = "WasteItem"
          /\ nodes[i].created_at = CallTime

\* The fields of the statistics that count items, streams and created
\* relationships or tell the mode.
CountFields ==
    {"items_loaded", "items_created", "streams_created", "streams_needed",
     "relationships_created", "dry_run"}

\* C15: the statistics a waste-item import returns, dry or real, have a
\* field of their own, apart from the counts of items, streams and created
\* relationships, that gives the number or the names of the facility targets
\* without a Facility of that name.
C15_StatsReportUnmatched ==
    (call.op = "import_waste_items" /\ Unmatched # {}) =>
        \E key \in DOMAIN stats \ CountFields :
            \/ stats[key] = Cardinality(Unmatched)
            \/ stats[key] = Cardinality({u[2] : u \in Unmatched})
            \/ stats[key] = {u[2] : u \in Unmatched}

(***************************************************************************)
(* A real run of import_waste_items followed statement by statement.       *)
(***************************************************************************)

\* The rows of the importers' pool and a section marker.
StepRowPool == RowPool \cup {Row("B", "")}

StepCatalogs == SeqsUpTo(StepRowPool, MaxRows)

\* python -m src.etl.waste_items has been started on a catalog and stands at
\* the first row of the loop of load_waste_items.
InitSteps ==
    /\ \E db \in InitialDbs : nodes = db.nodes /\ rels = db.rels /\ before = db
    /\ \E catalog \in StepCatalogs :
          call = [op |-> "import_waste_items", dry_run |-> FALSE, source |-> catalog]
    /\ clock = 2
    /\ repeat = FALSE
    /\ stats = [dry_run |-> FALSE]
    /\ warnings = <<>>
    /\ fn = "none"
    /\ arg = <<>>
    /\ ret = <<>>
    /\ pc = [at |-> "load", k |-> 1, items |-> <<>>, rows |-> <<>>]
    /\ log = <<>>

Event(e, k, t) == [event |-> e, row |-> k, target |-> t]

\* One pass of the loop of load_waste_items: row k is skipped or parsed and
\* appended to items (rows keeps the row each item came from).
LoadRow ==
    /\ pc.at = "load"
    /\ pc.k <= Len(call.source)
    /\ LET row == call.source[pc.k]
           name == strip(row.Abfallart)
       IN  IF is_section_marker(row) \/ name = ""
           THEN /\ pc' = [pc EXCEPT !.k = @ + 1]
                /\ log' = log
           ELSE \E targets \in Orders(parse_disposal_targets(row.Entsorgungsweg)) :
                   /\ pc' = [pc EXCEPT
                               !.k = @ + 1,
                               !.items = Append(@, [name |-> name,
                                                    disposal_targets |-> targets]),
                               !.rows = Append(@, pc.k)]
                   /\ log' = Append(log, Event("parse", pc.k, ""))
    /\ UNCHANGED <<storeVars, textVars>>

\* load_waste_items returns; import_waste_items reads the Facility names,
\* sets its counters to 0 and opens the session.
StartWriting ==
    /\ pc.at = "load"
    /\ pc.k > Len(call.source)
    /\ pc' = [at |-> "write", items |-> pc.items, rows |-> pc.rows,
              existing_facilities |-> get_existing_facilities(Db),
              items_created |-> 0, streams_created |-> 0,
              relationships_created |-> 0, i |-> 1, t |-> 0]
    /\ UNCHANGED <<storeVars, textVars, log>>

\* The position after the statement for target t of item i (t = 0: after the
\* WasteItem upsert) that skips the last target of every item.
NextStatementSkipsLast(items, i, t) ==
    IF t + 1 < Len(items[i].disposal_targets) THEN <<i, t + 1>> ELSE <<i + 1, 0>>

\* The position after the statement for target t of item i (t = 0: after the
\* WasteItem upsert): the next target of the item, else the next item.
NextStatement(items, i, t) ==
    IF t < Len(items[i].disposal_targets) THEN <<i, t + 1>> ELSE <<i + 1, 0>>

\* The WasteItem upsert of item i.
MergeItem ==
    /\ pc.at = "write"
    /\ pc.i <= Len(pc.items)
    /\ pc.t = 0
    /\ LET item == pc.items[pc.i]
           db == MergeWasteItem(Db, item.name, generate_uid(item.name), clock)
           n == NextStatement(pc.items, pc.i, 0)
       IN  /\ nodes' = db.nodes
           /\ rels' = db.rels
           /\ pc' = [pc EXCEPT !.items_created = @ + 1, !.i = n[1], !.t = n[2]]
           /\ log' = Append(log, Event("upsert_item", pc.rows[pc.i], ""))
    /\ UNCHANGED <<clock, call, before, repeat, stats, warnings, textVars>>

\* The statement for target t of item i.
LinkNextTarget ==
    /\ pc.at = "write"
    /\ pc.i <= Len(pc.items)
    /\ pc.t >= 1
    /\ LET item == pc.items[pc.i]
           target == item.disposal_targets[pc.t]
           n == NextStatement(pc.items, pc.i, pc.t)
       IN  \E acc \in {LinkTarget(
                          [db |-> Db, items_created |-> pc.items_created,
                           streams_created |-> pc.streams_created,
                           relationships_created |-> pc.relationships_created,
                           warnings |-> warnings],
                          item.name, target, pc.existing_facilities, clock)} :
              /\ nodes' = acc.db.nodes
              /\ rels' = acc.db.rels
              /\ warnings' = acc.warnings
              /\ pc' = [pc EXCEPT
                          !.streams_created = acc.streams_created,
                          !.relationships_created = acc.relationships_created,
                          !.i = n[1], !.t = n[2]]
              /\ log' = Append(log, Event("upsert_rel", pc.rows[pc.i], target))
    /\ UNCHANGED <<clock, call, before, repeat, stats, textVars>>

\* The loop over items has ended: the session is closed and the statistics
\* are returned.
Return ==
    /\ pc.at = "write"
    /\ pc.i > Len(pc.items)
    /\ stats' = [items_loaded |-> Len(pc.items),
                 items_created |-> pc.items_created,
                 streams_created |-> pc.streams_created,
                 relationships_created |-> pc.relationships_created,
                 dry_run |-> FALSE]
    /\ clock' = clock + 1
    /\ pc' = [pc EXCEPT !.at = "done"]
    /\ UNCHANGED <<nodes, rels, call, before, repeat, warnings, textVars, log>>

NextStep == LoadRow \/ StartWriting \/ MergeItem \/ LinkNextTarget \/ Return

SpecSteps == InitSteps /\ [][NextStep]_vars

Writes == {"upsert_item", "upsert_rel"}

\* How many events of the log are the given one.
Logged(e) == Cardinality({p \in DOMAIN log : log[p] = e})

\* C16 as stated: row k+1 is not parsed before the store writes for row k
\* have been issued, so no write for a row follows the parsing of a later
\* row.
C16_RowByRow ==
    \A p, q \in DOMAIN log :
        ( /\ log[p].event = "parse"
          /\ log[q].event \in Writes
          /\ log[q].row < log[p].row )
        => q < p

\* C16 amended: every row is parsed, in catalog order, before the first
\* store write is issued; the items are then written one after another in
\* catalog order, each with its WasteItem upsert first and then its
\* relationship statements; when the run returns, every item row has been
\* parsed once and upserted once, and one statement has been issued for each
\* of its targets.
C16_LoadThenWriteInOrder ==
    /\ \A p, q \in DOMAIN log :
          /\ (log[p].event = "parse" /\ log[q].event \in Writes) => p < q
          /\ (p < q /\ log[p].event = "parse" /\ log[q].event = "parse")
                => log[p].row < log[q].row
          /\ (p < q /\ log[p].event \in Writes /\ log[q].event \in Writes)
                => log[p].row <= log[q].row
    /\ \A q \in DOMAIN log :
          log[q].event = "upsert_rel" =>
              \E p \in 1..(q - 1) : log[p] = Event("upsert_item", log[q].row, "")
    /\ pc.at = "done" =>
          /\ \A p \in DOMAIN log : log[p].row \in ItemRows
          /\ \A k \in ItemRows :
                /\ Logged(Event("parse", k, "")) = 1
                /\ Logged(Event("upsert_item", k, "")) = 1
                /\ \A t \in ItemTargets(k) : Logged(Event("upsert_rel", k, t)) = 1
                /\ \A p \in DOMAIN log :
                      (log[p].event = "upsert_rel" /\ log[p].row = k)
                          => log[p].target \in ItemTargets(k)

\* A run over a catalog of two items has returned: both rows were parsed
\* before the first write, and both items have got relationship statements.
C16_Witness ==
    /\ pc.at = "done"
    /\ Len(call.source) = 2
    /\ ItemRows = {1, 2}
    /\ log[1].event = "parse"
    /\ log[2] = Event("parse", 2, "")
    /\ log[3] = Event("upsert_item", 1, "")
    /\ \E p, q \in DOMAIN log :
          /\ log[p].event = "upsert_rel" /\ log[p].row = 1
          /\ log[q].event = "upsert_rel" /\ log[q].row = 2

\* The WasteStream nodes the last call created.
StreamsCreated ==
    {i \in DOMAIN nodes :
        nodes[i].label = "WasteStream" /\ i \notin DOMAIN before.nodes}

\* C17: after a real waste-item import the reported streams_created is the
\* number of WasteStream nodes that the store did not hold before the run
\* and the run created, and every stream target of an item has its one
\* WasteStream with a DISPOSED_IN from the item.
C17_StreamsCreatedCountsNewStreams ==
    RealWasteImport =>
        /\ stats.streams_created = Cardinality(StreamsCreated)
        /\ \A k \in ItemRows :
              \A t \in ItemTargets(k) \cap WASTE_STREAMS :
                  /\ Cardinality(MatchNodes(Db, "WasteStream", "name", t)) = 1
                  /\ Linked("DISPOSED_IN", ItemName(k), "WasteStream", t)

\* parse_disposal_targets as the list it returns ------------------------------

\* list(set(targets)) that returns the list as it is.
deduplicated_not(targets) == {targets}

\* list(set(targets)): the lists that hold every name of targets once, in
\* the orders the iteration of the set may give.
deduplicated(targets) == Orders(Range(targets))

\* Cells that name a target twice, under one spelling and under two; cells
\* of dashes; names in capitals, with blanks, joined by " oder ".
ListCells ==
    {[names |-> <<>>, cell |-> c] : c \in
        { "Schadstoffsammlung\nSchadstoffsammlung FES\nSchadstoffmobil FES",
          "Biotonne\nBiotonne\n Biotonne ",
          "Wertstoffhof Nord Wertstoffhof Nord Wertstoffhof Nord",
          "Abfallumladeanlage FES und FES-Abfallumladeanlage",
          "--", "---", "- -", "-\n---\n-",
          "WERTSTOFFHOF NORD WERTSTOFFHOF WEST SCHADSTOFFSAMMLUNG",
          "abfallumladeanlage fes\nRESTMÜLLTONNE\n\tRestmülltonne ",
          "Biotonne oder Restmülltonne", "Biotonne\nRecyclinghof ODER Wertstoffhof",
          "POLIZEI Frankfurt\nFundbüro", "Bei der Polizei oder beim Wertstoffhof Nord abgeben",
          "Größere Mengen: Wertstoffhof Nord, Kartons gebündelt an die Straße" }}

ListInputs == ParseInputs \cup ListCells

InitParseList == TextInit("parse_disposal_targets", ListInputs)

ParseList ==
    /\ fn = "parse_disposal_targets"
    /\ ret = <<>>
    /\ \E targets \in deduplicated(parse_targets_list(arg.cell)) : ret' = <<targets>>
    /\ UNCHANGED <<fn, arg>>
    /\ UNCHANGED <<storeVars, stepVars>>

SpecParseList == InitParseList /\ [][ParseList]_vars

\* C18: every name of the list the parser returns passes the validity
\* filter, is left as it is by the normaliser and is in the list once; it is
\* neither empty nor a lone dash and holds, in any letter case, neither
\* " oder " nor one of the disqualifying substrings.
C18_ResultNamesAreClean ==
    Returned("parse_disposal_targets") =>
        \A i \in DOMAIN ret[1] :
            /\ is_valid_facility_name(ret[1][i])
            /\ normalize_facility_name(ret[1][i]) = ret[1][i]
            /\ Count(ret[1], ret[1][i]) = 1
            /\ ret[1][i] \notin {"", "-"}
            /\ ~ContainsAnyCase(ret[1][i], " oder ")
            /\ \A k \in DOMAIN skip_patterns :
                  ~ContainsAnyCase(ret[1][i], skip_patterns[k])

\* A cell that names one facility under three spellings has been parsed to
\* the list of its canonical name.
C18_Witness ==
    /\ Returned("parse_disposal_targets")
    /\ arg.cell = "Schadstoffsammlung\nSchadstoffsammlung FES\nSchadstoffmobil FES"
    /\ ret[1] = <<"Schadstoffsammlung">>

====
